---- MODULE Spec2Model ----
(***************************************************************************)
(* Execution runtime of zenoh-flow: the supervised runner loop and its     *)
(* manager (runners/mod.rs), the input-rule gathering loop (the            *)
(* run_input_rules macro) and the plugin loader (loader.rs).               *)
(***************************************************************************)
EXTENDS Integers, Sequences, FiniteSets, TLC

\* ------------------------------------------------------------------ bounds
MaxStarts == 2      \* calls of NodeRunner::start on the same NodeRunner
MaxCalls == 3       \* invocations of runner.run() over all tasks
MaxMsgs == 2        \* messages a source publishes / a producer sends per link
MaxCtrl == 1        \* control messages sent per link

Tasks == 1..MaxStarts

RunnerKind == {"Source", "Operator", "Sink", "Connector"}

\* What one poll of the body future (runner.run()) can do: return Ok, return
\* Err, or reach a suspension point.
BodyOutcomes == {"Ok", "Err", "Pending"}

\* futures_lite::future::FutureExt::race polls its two futures in random
\* order each time it is polled.
PollOrders == {"stopFirst", "runFirst"}

\* Receivers of the source's output port: the consumer wired by the graph
\* before start(), and the recorder tap of the manager of each start().
Consumer == <<"consumer">>
Tap(t) == <<"tap", t>>
Receivers == {Consumer} \cup {Tap(t) : t \in Tasks}

VARIABLES
    \* ---- NodeRunner / inner Runner
    kind,           \* inner.get_kind()
    outputs,        \* inner.get_outputs(): declared output ports
    stateInits,     \* times the node state was produced by initialize()
    outLinks,       \* receivers attached to the output port (senders held)
    produced,       \* messages the source published so far
    rcv,            \* rcv[r]: sequence of messages receiver r got
    runCalls,       \* times runner.run() was invoked
    errs,           \* times runner.run() returned Err
    postStop,       \* invocations of runner.run() begun by a task whose signal was already triggered
    \* ---- per start() call: the spawned task and the RunnerManager
    started,        \* number of start() calls so far
    pc,             \* task position: "unspawned", "loop", "body", "done"
    signal,         \* the stop Signal of the task is triggered
    result,         \* output of the join handle: "none", "Ok", "Err"
    exitBy,         \* why the loop returned: "none", "stop", "runOk", "runErr"
    mgr,            \* try_new position / outcome
    logger,         \* RunnerManager.logger is Some
    logger_stopper, \* RunnerManager.logger_stopper: "None", "Pending", "Triggered"
    kpc,            \* position of a kill() call on the manager: "idle", "mid"
    killRet         \* value the last completed kill() returned: "none", "Ok"

rvars == <<kind, outputs, stateInits, outLinks, produced, rcv, runCalls, errs,
           postStop, started, pc, signal, result, exitBy, mgr, logger,
           logger_stopper, kpc, killRet>>

\* ---- the gathering loop of one node with inputs
VARIABLES
    rule,       \* the node's input_rule: the default one or a custom one
    chan,       \* chan[p]: messages in flight on the link of input port p
    closed,     \* closed[p]: every sender of the link of p was dropped
    dataSent,   \* dataSent[p]: data messages the producer of p sent
    ctrlSent,   \* ctrlSent[p]: control messages sent on the link of p
    tokens,     \* tokens[p]: the token of port p, Empty or the stored message
    links,      \* the ports whose receive future is in $links
    ruleOk,     \* input_rule returned Ok(true) in the current round
    fired,      \* the token maps the body was invoked with, in order
    taken,      \* taken[p]: data messages the engine received on p
    recvs       \* recvs[p]: completed receives on p in the current round

evars == <<rule, chan, closed, dataSent, ctrlSent, tokens, links, ruleOk,
           fired, taken, recvs>>

\* ---- the loader
VARIABLES
    lib,        \* the library on disk
    call,       \* the last load call: which loader, on which path
    outcome,    \* what that call did and returned
    held,       \* what the caller still holds of the returned pair
    uaf         \* the instance was invoked after its library was dropped

lvars == <<lib, call, outcome, held, uaf>>

\* ---- recording through the RunnerManager
VARIABLES
    recording,  \* recording[t]: the logger of manager t is recording
    recRet,     \* recRet[t]: what the last recording call returned
    lastRec     \* lastRec[t]: the last recording call made on manager t

mvars == <<recording, recRet, lastRec>>

\* ---- the names of the recorder taps of a runtime
VARIABLES
    taps        \* the taps created so far: their ids, key and logger id

nvars == <<taps>>

vars == <<rvars, evars, lvars, mvars, nvars>>

\* ------------------------------------------------------- NodeRunner::new
RunnerInit ==
    /\ kind \in RunnerKind
    /\ outputs \in SUBSET {"out"}
    /\ stateInits = 1
    /\ outLinks = IF outputs = {} THEN {} ELSE {Consumer}
    /\ produced = 0
    /\ rcv = [r \in Receivers |-> <<>>]
    /\ runCalls = 0
    /\ errs = 0
    /\ postStop = 0
    /\ started = 0
    /\ pc = [t \in Tasks |-> "unspawned"]
    /\ signal = [t \in Tasks |-> FALSE]
    /\ result = [t \in Tasks |-> "none"]
    /\ exitBy = [t \in Tasks |-> "none"]
    /\ mgr = [t \in Tasks |-> "none"]
    /\ logger = [t \in Tasks |-> FALSE]
    /\ logger_stopper = [t \in Tasks |-> "None"]
    /\ kpc = [t \in Tasks |-> "idle"]
    /\ killRet = [t \in Tasks |-> "none"]

\* ------------------------------------------------ NodeRunner::run_stoppable
\* async fn stop(signal): ready once the signal is triggered.
stop_neverReady(t) == "Pending"

stop(t) == IF signal[t] THEN "Stop" ELSE "Pending"

run_ErrStops(out) == IF out = "Pending" THEN "Pending" ELSE "Stop"

\* async fn run(runner): maps the body's result to a RunAction.
run(out) ==
    CASE out = "Ok" -> "Stop"
      [] out = "Err" -> "RestartRun"
      [] OTHER -> "Pending"

\* The body future is polled unless stop was polled first and was ready.
RunPolled(order, t) == order = "runFirst" \/ stop(t) = "Pending"

\* stop(cloned_signal).race(run(self)): the first ready future, in poll order.
race(order, t, out) ==
    IF order = "stopFirst"
    THEN IF stop(t) # "Pending" THEN stop(t) ELSE run(out)
    ELSE IF run(out) # "Pending" THEN run(out) ELSE stop(t)

\* The match inside block_on: RestartRun(e) => Err(e), Stop => Ok(()).
blockOn(act) == IF act = "RestartRun" THEN "Err" ELSE "Ok"

LoopStepPropagate(res) == [exit |-> TRUE, ret |-> res]

\* if result.is_ok() { return Ok(()) }, otherwise the loop goes round.
LoopStep(res) ==
    IF res = "Ok" THEN [exit |-> TRUE, ret |-> "Ok"]
    ELSE [exit |-> FALSE, ret |-> "none"]

\* The source runner's body publishes to every sender its output port holds
\* at the moment of publication.
Publish(pub) ==
    /\ produced' = produced + pub
    /\ rcv' = [r \in Receivers |->
                 IF pub = 1 /\ r \in outLinks
                 THEN Append(rcv[r], produced + 1) ELSE rcv[r]]

\* One poll of the race by block_on in the task of start() number t: a new
\* iteration of the loop (pc = "loop") or a wake-up of a pending race
\* (pc = "body", the body suspended).
Poll(t, order, out, pub) ==
    /\ pc[t] \in {"loop", "body"}
    /\ LET polled == RunPolled(order, t)
           fresh == pc[t] = "loop" /\ polled
           act == race(order, t, out)
           step == LoopStep(blockOn(act))
       IN  /\ fresh => runCalls < MaxCalls
           /\ pub = 1 => (polled /\ kind = "Source" /\ produced < MaxMsgs)
           /\ runCalls' = IF fresh THEN runCalls + 1 ELSE runCalls
           /\ postStop' = IF fresh /\ signal[t] THEN postStop + 1 ELSE postStop
           /\ errs' = IF polled /\ out = "Err" THEN errs + 1 ELSE errs
           /\ Publish(pub)
           /\ IF act = "Pending"
              THEN /\ pc' = [pc EXCEPT ![t] = "body"]
                   /\ UNCHANGED <<result, exitBy>>
              ELSE IF step.exit
              THEN /\ pc' = [pc EXCEPT ![t] = "done"]
                   /\ result' = [result EXCEPT ![t] = step.ret]
                   /\ exitBy' = [exitBy EXCEPT ![t] =
                          IF ~polled \/ out = "Pending" THEN "stop"
                          ELSE IF out = "Ok" THEN "runOk" ELSE "runErr"]
              ELSE /\ pc' = [pc EXCEPT ![t] = "loop"]
                   /\ UNCHANGED <<result, exitBy>>
    /\ UNCHANGED <<kind, outputs, stateInits, outLinks, started, signal, mgr,
                   logger, logger_stopper, kpc, killRet>>
    /\ UNCHANGED <<evars, lvars, mvars, nvars>>

\* ---------------------------------------------------------- NodeRunner::start
\* Signal::new(), spawn_blocking(run_stoppable), then RunnerManager::try_new.
start(t) ==
    /\ started = t - 1
    /\ started' = t
    /\ pc' = [pc EXCEPT ![t] = "loop"]
    /\ mgr' = [mgr EXCEPT ![t] = "try_new"]
    /\ UNCHANGED <<kind, outputs, stateInits, outLinks, produced, rcv, runCalls,
                   errs, postStop, signal, result, exitBy, logger,
                   logger_stopper, kpc, killRet>>
    /\ UNCHANGED <<evars, lvars, mvars, nvars>>

\* ------------------------------------------------------ RunnerManager::try_new
\* Up to the creation of the logger: the kind test, outputs.pop(), the link
\* and ZenohLogger::try_new (which may fail).
try_new_check_anyKind(t, logOk) ==
    /\ mgr[t] = "try_new"
    /\ mgr' = [mgr EXCEPT ![t] =
          IF outputs = {} THEN "NodeNotFound"
          ELSE IF ~logOk THEN "LoggerError" ELSE "add_output"]
    /\ UNCHANGED <<kind, outputs, stateInits, outLinks, produced, rcv, runCalls,
                   errs, postStop, started, pc, signal, result, exitBy, logger,
                   logger_stopper, kpc, killRet>>
    /\ UNCHANGED <<evars, lvars, mvars, nvars>>

try_new_check(t, logOk) ==
    /\ mgr[t] = "try_new"
    /\ mgr' = [mgr EXCEPT ![t] =
          IF kind = "Source"
          THEN IF outputs = {} THEN "NodeNotFound"
               ELSE IF ~logOk THEN "LoggerError" ELSE "add_output"
          ELSE "ready"]
    /\ UNCHANGED <<kind, outputs, stateInits, outLinks, produced, rcv, runCalls,
                   errs, postStop, started, pc, signal, result, exitBy, logger,
                   logger_stopper, kpc, killRet>>
    /\ UNCHANGED <<evars, lvars, mvars, nvars>>

\* runner.add_output(tx).await?, logger.start(), Ok(Self { .. }).
try_new_wire(t, addOk) ==
    /\ mgr[t] = "add_output"
    /\ IF addOk
       THEN /\ outLinks' = outLinks \cup {Tap(t)}
            /\ logger' = [logger EXCEPT ![t] = TRUE]
            /\ logger_stopper' = [logger_stopper EXCEPT ![t] = "Pending"]
            /\ mgr' = [mgr EXCEPT ![t] = "ready"]
       ELSE /\ mgr' = [mgr EXCEPT ![t] = "LinkError"]
            /\ UNCHANGED <<outLinks, logger, logger_stopper>>
    /\ UNCHANGED <<kind, outputs, stateInits, produced, rcv, runCalls, errs,
                   postStop, started, pc, signal, result, exitBy, kpc, killRet>>
    /\ UNCHANGED <<evars, lvars, mvars, nvars>>

\* ----------------------------- RunnerManager::start_recording / stop_recording
\* match &self.logger { Some(logger) => logger.start_recording().await,
\*                      _ => Ok(String::from("")) }
\* The logger answers with the resource name or with an error.
start_recording(t, logOk) ==
    /\ mgr[t] = "ready"
    /\ lastRec' = [lastRec EXCEPT ![t] = "start_recording"]
    /\ IF logger[t]
       THEN /\ recording' = [recording EXCEPT ![t] = IF logOk THEN TRUE ELSE @]
            /\ recRet' = [recRet EXCEPT ![t] = IF logOk THEN "resource" ELSE "Err"]
       ELSE /\ recRet' = [recRet EXCEPT ![t] = ""]
            /\ UNCHANGED recording
    /\ UNCHANGED <<rvars, evars, lvars, nvars>>

stop_recording(t, logOk) ==
    /\ mgr[t] = "ready"
    /\ lastRec' = [lastRec EXCEPT ![t] = "stop_recording"]
    /\ IF logger[t]
       THEN /\ recording' = [recording EXCEPT ![t] = IF logOk THEN FALSE ELSE @]
            /\ recRet' = [recRet EXCEPT ![t] = IF logOk THEN "resource" ELSE "Err"]
       ELSE /\ recRet' = [recRet EXCEPT ![t] = ""]
            /\ UNCHANGED recording
    /\ UNCHANGED <<rvars, evars, lvars, nvars>>

\* --------------------------------------------------------- RunnerManager::kill
kill_swapped(t) ==
    /\ mgr[t] = "ready"
    /\ \/ /\ kpc[t] = "idle"
          /\ signal' = [signal EXCEPT ![t] = TRUE]
          /\ kpc' = [kpc EXCEPT ![t] = "mid"]
          /\ UNCHANGED <<logger_stopper, killRet>>
       \/ /\ kpc[t] = "mid"
          /\ logger_stopper' = [logger_stopper EXCEPT ![t] =
                IF @ = "None" THEN "None" ELSE "Triggered"]
          /\ kpc' = [kpc EXCEPT ![t] = "idle"]
          /\ killRet' = [killRet EXCEPT ![t] = "Ok"]
          /\ UNCHANGED signal
    /\ UNCHANGED <<kind, outputs, stateInits, outLinks, produced, rcv, runCalls,
                   errs, postStop, started, pc, result, exitBy, mgr, logger>>
    /\ UNCHANGED <<evars, lvars, mvars, nvars>>

\* if let Some(ls) = &self.logger_stopper { ls.trigger() }; then
\* self.stopper.trigger(); Ok(()). The handle is not awaited.
kill(t) ==
    /\ mgr[t] = "ready"
    /\ \/ /\ kpc[t] = "idle"
          /\ logger_stopper' = [logger_stopper EXCEPT ![t] =
                IF @ = "None" THEN "None" ELSE "Triggered"]
          /\ kpc' = [kpc EXCEPT ![t] = "mid"]
          /\ UNCHANGED <<signal, killRet>>
       \/ /\ kpc[t] = "mid"
          /\ signal' = [signal EXCEPT ![t] = TRUE]
          /\ kpc' = [kpc EXCEPT ![t] = "idle"]
          /\ killRet' = [killRet EXCEPT ![t] = "Ok"]
          /\ UNCHANGED logger_stopper
    /\ UNCHANGED <<kind, outputs, stateInits, outLinks, produced, rcv, runCalls,
                   errs, postStop, started, pc, result, exitBy, mgr, logger>>
    /\ UNCHANGED <<evars, lvars, mvars, nvars>>


\* =========================================================================
\* The input-rule gathering loop of an operator or sink with two input ports.
\* =========================================================================
Ports == {"x", "y"}

Rules == {"default", "any", "error"}

Empty == [tag |-> "Empty", n |-> 0]
Data(k) == [tag |-> "Data", n |-> k]
Control == [tag |-> "Control", n |-> 0]

EngineInit ==
    /\ rule \in Rules
    /\ chan = [p \in Ports |-> <<>>]
    /\ closed = [p \in Ports |-> FALSE]
    /\ dataSent = [p \in Ports |-> 0]
    /\ ctrlSent = [p \in Ports |-> 0]
    /\ tokens = [p \in Ports |-> Empty]
    /\ links = Ports
    /\ ruleOk = FALSE
    /\ fired = <<>>
    /\ taken = [p \in Ports |-> 0]
    /\ recvs = [p \in Ports |-> 0]

\* default_input_rule: true iff every token is ready; the tokens are left as
\* they are.
default_input_rule(tk) ==
    IF \A p \in Ports : tk[p] # Empty THEN "true" ELSE "false"

\* $node.input_rule($context, $state, &mut $tokens): VideoSink delegates to
\* default_input_rule; a custom rule may fire on any token or fail.
input_rule(r, tk) ==
    CASE r = "default" -> default_input_rule(tk)
      [] r = "any" -> "true"
      [] OTHER -> "err"

NextLinksKeepOnFire(res, p) == links \ {p}

NextLinksReawait(res, p) == IF res = "true" THEN {} ELSE links

\* The value given to $links after a Data message of port p: vec![] on
\* Ok(true), the remaining futures on Ok(false) and on Err.
NextLinksAbortRound(res, p) == {}

NextLinks(res, p) == IF res = "true" THEN {} ELSE links \ {p}

\* Message::Control(_) => { $links = remaining; }
OnControlReawait(p) == links

OnControl(p) == links \ {p}

\* (Err(e), i, remaining) => { log; $links = remaining; }
OnRecvErrorAbort(p) == {}

OnRecvError(p) == links \ {p}

\* One iteration of `while !$links.is_empty()`: select_all completes on the
\* receive future of port p, with a message or with a receive error.
run_input_rules(p) ==
    /\ links # {}
    /\ p \in links
    /\ \/ /\ chan[p] # <<>>
          /\ chan' = [chan EXCEPT ![p] = Tail(@)]
          /\ recvs' = [recvs EXCEPT ![p] = @ + 1]
          /\ IF Head(chan[p]).tag = "Data"
             THEN LET tk == [tokens EXCEPT ![p] = Head(chan[p])]
                      res == input_rule(rule, tk)
                  IN  /\ tokens' = tk
                      /\ taken' = [taken EXCEPT ![p] = @ + 1]
                      /\ links' = NextLinks(res, p)
                      /\ ruleOk' = (res = "true")
             ELSE /\ links' = OnControl(p)
                  /\ UNCHANGED <<tokens, taken, ruleOk>>
       \/ /\ chan[p] = <<>>
          /\ closed[p]
          /\ links' = OnRecvError(p)
          /\ UNCHANGED <<chan, recvs, tokens, taken, ruleOk>>
    /\ UNCHANGED <<rule, closed, dataSent, ctrlSent, fired>>
    /\ UNCHANGED <<rvars, lvars, mvars, nvars>>

\* After the loop: on fire the body is invoked with the tokens, the ready
\* entries are consumed, and the next round awaits the ports whose token is
\* Empty; without fire the round is started again.
EndRound ==
    /\ links = {}
    /\ IF ruleOk
       THEN /\ fired' = Append(fired, tokens)
            /\ tokens' = [p \in Ports |-> Empty]
       ELSE UNCHANGED <<fired, tokens>>
    /\ links' = {p \in Ports : tokens'[p] = Empty}
    /\ ruleOk' = FALSE
    /\ recvs' = [p \in Ports |-> 0]
    /\ UNCHANGED <<rule, chan, closed, dataSent, ctrlSent, taken>>
    /\ UNCHANGED <<rvars, lvars, mvars, nvars>>

\* The producer of port p sends its next data message.
SendData(p) ==
    /\ ~closed[p]
    /\ dataSent[p] < MaxMsgs
    /\ dataSent' = [dataSent EXCEPT ![p] = @ + 1]
    /\ chan' = [chan EXCEPT ![p] = Append(@, Data(dataSent[p] + 1))]
    /\ UNCHANGED <<rule, closed, ctrlSent, tokens, links, ruleOk, fired, taken, recvs>>
    /\ UNCHANGED <<rvars, lvars, mvars, nvars>>

\* A control message is sent on the link of port p.
SendControl(p) ==
    /\ ~closed[p]
    /\ ctrlSent[p] < MaxCtrl
    /\ ctrlSent' = [ctrlSent EXCEPT ![p] = @ + 1]
    /\ chan' = [chan EXCEPT ![p] = Append(@, Control)]
    /\ UNCHANGED <<rule, closed, dataSent, tokens, links, ruleOk, fired, taken, recvs>>
    /\ UNCHANGED <<rvars, lvars, mvars, nvars>>

\* Every sender of the link of port p is dropped.
CloseLink(p) ==
    /\ ~closed[p]
    /\ closed' = [closed EXCEPT ![p] = TRUE]
    /\ UNCHANGED <<rule, chan, dataSent, ctrlSent, tokens, links, ruleOk, fired, taken, recvs>>
    /\ UNCHANGED <<rvars, lvars, mvars, nvars>>

\* =========================================================================
\* The plugin loader.
\* =========================================================================
CORE_VERSION == "core-1"
RUSTC_VERSION == "rustc-1"

NodeKinds == {"operator", "source", "sink"}

\* A path given to a loader: whether Url::parse accepts it, and the scheme,
\* host ("" when the URI has none) and path of the parsed URI.
Uris == [parses : BOOLEAN, scheme : {"file", "http"}, host : {"", "h"},
         path : {"/a.so", "/b.so"}]

\* The shared library found on disk: whether Library::new maps it, the
\* declaration symbols it exports, the versions its declaration carries and
\* whether its register function succeeds.
Libraries == [loadable : BOOLEAN, symbols : SUBSET NodeKinds,
              rustc : {"rustc-1", "rustc-2"}, core : {"core-1", "core-2"},
              regOk : BOOLEAN]

\* What a load call did: its result, and which of its steps it performed.
Eff(res, fs, new, sym, decl, reg, inst) ==
    [result |-> res, fsAccess |-> fs, libNew |-> new, symLookup |-> sym,
     declRead |-> decl, registerCalls |-> reg, instance |-> inst,
     library |-> inst]

NoUri == [parses |-> FALSE, scheme |-> "file", host |-> "", path |-> "/a.so"]

LoaderInit ==
    /\ lib \in Libraries
    /\ call = [kind |-> "none", uri |-> NoUri]
    /\ outcome = Eff("none", FALSE, FALSE, FALSE, FALSE, 0, FALSE)
    /\ held = [library |-> FALSE, instance |-> FALSE]
    /\ uaf = FALSE

\* std::fs::canonicalize: the files that exist, relative ones resolved
\* against the working directory.
canonicalize(p) ==
    CASE p = "/a.so" -> [ok |-> TRUE, path |-> "/a.so"]
      [] p = "h/a.so" -> [ok |-> TRUE, path |-> "/cwd/h/a.so"]
      [] OTHER -> [ok |-> FALSE, path |-> ""]

\* Host and path concatenated when the URI has a host, then canonicalized.
make_file_path(uri) ==
    LET file_path == IF uri.host # "" THEN uri.host \o uri.path ELSE uri.path
    IN  canonicalize(file_path)

load_lib_operator_dropsLibrary(path) ==
    IF ~lib.loadable
    THEN Eff("LibError", TRUE, TRUE, FALSE, FALSE, 0, FALSE)
    ELSE IF "operator" \notin lib.symbols
    THEN Eff("LibError", TRUE, TRUE, TRUE, FALSE, 0, FALSE)
    ELSE IF lib.rustc # RUSTC_VERSION \/ lib.core # CORE_VERSION
    THEN Eff("VersionMismatch", TRUE, TRUE, TRUE, TRUE, 0, FALSE)
    ELSE IF lib.regOk
    THEN [Eff("Ok", TRUE, TRUE, TRUE, TRUE, 1, TRUE) EXCEPT !.library = FALSE]
    ELSE Eff("RegisterError", TRUE, TRUE, TRUE, TRUE, 1, FALSE)

load_lib_operator(path) ==
    IF ~lib.loadable
    THEN Eff("LibError", TRUE, TRUE, FALSE, FALSE, 0, FALSE)
    ELSE IF "operator" \notin lib.symbols
    THEN Eff("LibError", TRUE, TRUE, TRUE, FALSE, 0, FALSE)
    ELSE IF lib.rustc # RUSTC_VERSION \/ lib.core # CORE_VERSION
    THEN Eff("VersionMismatch", TRUE, TRUE, TRUE, TRUE, 0, FALSE)
    ELSE IF lib.regOk
    THEN Eff("Ok", TRUE, TRUE, TRUE, TRUE, 1, TRUE)
    ELSE Eff("RegisterError", TRUE, TRUE, TRUE, TRUE, 1, FALSE)

load_operator(u) ==
    IF ~u.parses
    THEN Eff("ParsingError", FALSE, FALSE, FALSE, FALSE, 0, FALSE)
    ELSE IF u.scheme = "file"
    THEN IF make_file_path(u).ok
         THEN load_lib_operator(make_file_path(u).path)
         ELSE Eff("IOError", TRUE, FALSE, FALSE, FALSE, 0, FALSE)
    ELSE Eff("Unimplemented", FALSE, FALSE, FALSE, FALSE, 0, FALSE)

load_lib_source(path) ==
    IF ~lib.loadable
    THEN Eff("LibError", TRUE, TRUE, FALSE, FALSE, 0, FALSE)
    ELSE IF "source" \notin lib.symbols
    THEN Eff("LibError", TRUE, TRUE, TRUE, FALSE, 0, FALSE)
    ELSE IF lib.rustc # RUSTC_VERSION \/ lib.core # CORE_VERSION
    THEN Eff("VersionMismatch", TRUE, TRUE, TRUE, TRUE, 0, FALSE)
    ELSE IF lib.regOk
    THEN Eff("Ok", TRUE, TRUE, TRUE, TRUE, 1, TRUE)
    ELSE Eff("RegisterError", TRUE, TRUE, TRUE, TRUE, 1, FALSE)

load_source_pathFirst(u) ==
    IF ~u.parses
    THEN Eff("ParsingError", FALSE, FALSE, FALSE, FALSE, 0, FALSE)
    ELSE IF ~make_file_path(u).ok
    THEN Eff("IOError", TRUE, FALSE, FALSE, FALSE, 0, FALSE)
    ELSE IF u.scheme = "file"
    THEN load_lib_source(make_file_path(u).path)
    ELSE Eff("Unimplemented", TRUE, FALSE, FALSE, FALSE, 0, FALSE)

load_source(u) ==
    IF ~u.parses
    THEN Eff("ParsingError", FALSE, FALSE, FALSE, FALSE, 0, FALSE)
    ELSE IF u.scheme = "file"
    THEN IF make_file_path(u).ok
         THEN load_lib_source(make_file_path(u).path)
         ELSE Eff("IOError", TRUE, FALSE, FALSE, FALSE, 0, FALSE)
    ELSE Eff("Unimplemented", FALSE, FALSE, FALSE, FALSE, 0, FALSE)

load_lib_sink_and(path) ==
    IF ~lib.loadable
    THEN Eff("LibError", TRUE, TRUE, FALSE, FALSE, 0, FALSE)
    ELSE IF "sink" \notin lib.symbols
    THEN Eff("LibError", TRUE, TRUE, TRUE, FALSE, 0, FALSE)
    ELSE IF lib.rustc # RUSTC_VERSION /\ lib.core # CORE_VERSION
    THEN Eff("VersionMismatch", TRUE, TRUE, TRUE, TRUE, 0, FALSE)
    ELSE IF lib.regOk
    THEN Eff("Ok", TRUE, TRUE, TRUE, TRUE, 1, TRUE)
    ELSE Eff("RegisterError", TRUE, TRUE, TRUE, TRUE, 1, FALSE)

load_lib_sink(path) ==
    IF ~lib.loadable
    THEN Eff("LibError", TRUE, TRUE, FALSE, FALSE, 0, FALSE)
    ELSE IF "sink" \notin lib.symbols
    THEN Eff("LibError", TRUE, TRUE, TRUE, FALSE, 0, FALSE)
    ELSE IF lib.rustc # RUSTC_VERSION \/ lib.core # CORE_VERSION
    THEN Eff("VersionMismatch", TRUE, TRUE, TRUE, TRUE, 0, FALSE)
    ELSE IF lib.regOk
    THEN Eff("Ok", TRUE, TRUE, TRUE, TRUE, 1, TRUE)
    ELSE Eff("RegisterError", TRUE, TRUE, TRUE, TRUE, 1, FALSE)

load_sink(u) ==
    IF ~u.parses
    THEN Eff("ParsingError", FALSE, FALSE, FALSE, FALSE, 0, FALSE)
    ELSE IF u.scheme = "file"
    THEN IF make_file_path(u).ok
         THEN load_lib_sink(make_file_path(u).path)
         ELSE Eff("IOError", TRUE, FALSE, FALSE, FALSE, 0, FALSE)
    ELSE Eff("Unimplemented", FALSE, FALSE, FALSE, FALSE, 0, FALSE)

\* A caller that holds nothing loads a plugin of kind k from path u and
\* keeps the pair (Library, instance) the loader returns.
Load(k, u) ==
    /\ ~held.library /\ ~held.instance
    /\ call' = [kind |-> k, uri |-> u]
    /\ outcome' = CASE k = "operator" -> load_operator(u)
                    [] k = "source" -> load_source(u)
                    [] OTHER -> load_sink(u)
    /\ held' = [library |-> outcome'.library, instance |-> outcome'.instance]
    /\ UNCHANGED <<lib, uaf>>
    /\ UNCHANGED <<rvars, evars, mvars, nvars>>

\* The runner that holds the instance invokes it.
Invoke ==
    /\ held.instance
    /\ uaf' = (uaf \/ ~held.library)
    /\ UNCHANGED <<lib, call, outcome, held>>
    /\ UNCHANGED <<rvars, evars, mvars, nvars>>

\* The holder destroys the node instance.
DropInstance ==
    /\ held.instance
    /\ held' = [held EXCEPT !.instance = FALSE]
    /\ UNCHANGED <<lib, call, outcome, uaf>>
    /\ UNCHANGED <<rvars, evars, mvars, nvars>>

\* The holder drops the library handle, strictly after the instance.
DropLibrary ==
    /\ held.library
    /\ ~held.instance
    /\ held' = [held EXCEPT !.library = FALSE]
    /\ UNCHANGED <<lib, call, outcome, uaf>>
    /\ UNCHANGED <<rvars, evars, mvars, nvars>>

\* =========================================================================
\* The names try_new gives the recorder tap of a source.
\* =========================================================================
MaxTaps == 2

\* Identifiers are arbitrary strings; the node and port ids below include
\* ones that contain the separators of the two formats.
FlowIds == {"f", "g"}
InstanceIds == {"i", "j"}
NodeIds == {"a", "a-b", "a/b"}
PortIds == {"c", "b-c", "b/c"}

\* format!("/zf/record/{}/{}/{}/{}", flow_id, instance_id, node_id, output_id)
z_resource_name(flow_id, instance_id, node_id, output_id) ==
    "/zf/record/" \o flow_id \o "/" \o instance_id \o "/" \o node_id
                  \o "/" \o output_id

\* format!("logger-{}-{}-{}-{}", flow_id, instance_id, node_id, output_id)
recorder_id(flow_id, instance_id, node_id, output_id) ==
    "logger-" \o flow_id \o "-" \o instance_id \o "-" \o node_id
              \o "-" \o output_id

\* try_new on a source node_id with output output_id in the instance
\* (flow_id, instance_id) creates the tap and names it.
CreateTap(flow_id, instance_id, node_id, output_id) ==
    /\ Cardinality(taps) < MaxTaps
    /\ taps' = taps \cup
          {[ids |-> <<flow_id, instance_id, node_id, output_id>>,
            key |-> z_resource_name(flow_id, instance_id, node_id, output_id),
            id |-> recorder_id(flow_id, instance_id, node_id, output_id)]}
    /\ UNCHANGED <<rvars, evars, lvars, mvars>>

\* =========================================================================
\* Specifications.
\* =========================================================================
RecordingInit ==
    /\ recording = [t \in Tasks |-> FALSE]
    /\ recRet = [t \in Tasks |-> "none"]
    /\ lastRec = [t \in Tasks |-> "none"]

NamesInit == taps = {}

RunnerIdle ==
    /\ RunnerInit /\ kind = "Operator" /\ outputs = {"out"}
    /\ RecordingInit
EngineIdle == EngineInit /\ rule = "default"
LoaderIdle ==
    /\ LoaderInit
    /\ lib = [loadable |-> TRUE, symbols |-> NodeKinds, rustc |-> RUSTC_VERSION,
              core |-> CORE_VERSION, regOk |-> TRUE]

\* One NodeRunner started once, and the manager start() returns.
Init == RunnerInit /\ RecordingInit /\ EngineIdle /\ LoaderIdle /\ NamesInit
Next ==
    \/ start(1)
    \/ \E order \in PollOrders, out \in BodyOutcomes, pub \in {0, 1} :
          Poll(1, order, out, pub)
    \/ \E logOk \in BOOLEAN : try_new_check(1, logOk)
    \/ \E addOk \in BOOLEAN : try_new_wire(1, addOk)
    \/ kill(1)
    \/ \E logOk \in BOOLEAN : start_recording(1, logOk)
    \/ \E logOk \in BOOLEAN : stop_recording(1, logOk)
Spec == Init /\ [][Next]_vars

\* The same, with the scheduling the task gets: once the signal is
\* triggered the stop future wakes the task, block_on polls the race again,
\* and of the polls of the race, whose order is drawn at random each time,
\* one eventually polls stop first.
StopPolledFirst ==
    /\ signal[1]
    /\ \E out \in BodyOutcomes, pub \in {0, 1} : Poll(1, "stopFirst", out, pub)
SpecLive == Spec /\ WF_vars(StopPolledFirst)

\* The same NodeRunner started several times.
NextStarts ==
    \/ \E t \in Tasks : start(t)
    \/ \E t \in Tasks, order \in PollOrders, out \in BodyOutcomes, pub \in {0, 1} :
          Poll(t, order, out, pub)
    \/ \E t \in Tasks, logOk \in BOOLEAN : try_new_check(t, logOk)
    \/ \E t \in Tasks, addOk \in BOOLEAN : try_new_wire(t, addOk)
    \/ \E t \in Tasks : kill(t)
SpecStarts == Init /\ [][NextStarts]_vars

\* The gathering loop of a node with two input ports and their producers.
InitEngine == RunnerIdle /\ EngineInit /\ LoaderIdle /\ NamesInit
NextEngine ==
    \/ \E p \in Ports : run_input_rules(p)
    \/ EndRound
    \/ \E p \in Ports : SendData(p)
    \/ \E p \in Ports : SendControl(p)
    \/ \E p \in Ports : CloseLink(p)
SpecEngine == InitEngine /\ [][NextEngine]_vars

\* The three loaders applied to the paths and libraries of the bounded sets.
InitLoader == RunnerIdle /\ EngineIdle /\ LoaderInit /\ NamesInit
NextLoader ==
    \/ \E k \in NodeKinds, u \in Uris : Load(k, u)
    \/ Invoke
    \/ DropInstance
    \/ DropLibrary
SpecLoader == InitLoader /\ [][NextLoader]_vars

\* The taps of the sources of a runtime, named one after the other.
InitNames == RunnerIdle /\ EngineIdle /\ LoaderIdle /\ NamesInit
NextNames ==
    \E f \in FlowIds, i \in InstanceIds, n \in NodeIds, p \in PortIds :
        CreateTap(f, i, n, p)
SpecNames == InitNames /\ [][NextNames]_vars

\* =========================================================================
\* Properties of the supervised loop and the manager.
\* =========================================================================
Identity == [i \in 1..produced |-> i]

\* C1: every iteration of the supervised loop races stop against run; the
\* loop returns only when stop won or run returned Ok, a run that returned
\* Err is followed by another iteration, and the join handle's result is
\* Ok(()) whenever the task has completed, never an Err.
C1_HandleIsOk ==
    /\ [](/\ result[1] # "Err"
          /\ (pc[1] = "done") <=> (result[1] = "Ok")
          /\ pc[1] = "done" => exitBy[1] \in {"stop", "runOk"})
    /\ [][errs' = errs + 1 => pc'[1] = "loop"]_vars

C1_Witness ==
    /\ pc[1] = "done" /\ result[1] = "Ok"
    /\ errs >= 1 /\ exitBy[1] = "runOk" /\ signal[1]

\* C2: when the stop signal is not triggered and the body returned Err N
\* times before it returned Ok, the loop has invoked run exactly N+1 times
\* and the node state was initialized once.
C2_SupervisedRestart ==
    (pc[1] = "done" /\ ~signal[1]) =>
        (runCalls = errs + 1 /\ stateInits = 1)

C2_Witness == pc[1] = "done" /\ ~signal[1] /\ errs = 2 /\ runCalls = 3

\* C3: once the stop signal is triggered the loop begins at most one more
\* invocation of run.
C3_StopDominance == postStop <= 1

\* C4 (as stated): the task ends only after the stop signal was triggered.
C4_OnlyStopTerminates == pc[1] = "done" => signal[1]

\* C4 (amended): the task ends only after the stop signal was triggered or a
\* body invocation returned Ok; a body error never ends it.
C4_StopOrOkTerminates ==
    pc[1] = "done" =>
        \/ exitBy[1] = "stop" /\ signal[1]
        \/ exitBy[1] = "runOk"

C4_Witness == pc[1] = "done" /\ exitBy[1] = "stop" /\ errs >= 1

\* C5: at most one invocation of runner.run() of the node instance is in
\* progress at any time, also when start() is called more than once.
C5_AtMostOneBody == Cardinality({t \in Tasks : pc[t] = "body"}) <= 1

\* C6: kill() triggers the logger stop signal before the main stop signal,
\* returns Ok without waiting for the task, and a kill() after both signals
\* are triggered changes nothing else.
C6_KillIdempotent ==
    /\ [](signal[1] => (logger_stopper[1] # "Pending" /\ killRet[1] = "Ok"))
    /\ [](logger_stopper[1] = "None" <=> ~logger[1])
    /\ [][kill(1) => UNCHANGED <<pc, result, exitBy, mgr, logger, runCalls,
                                 outLinks, produced, rcv>>]_vars
    /\ [][(kill(1) /\ signal[1] /\ logger_stopper[1] # "Pending") =>
              UNCHANGED <<signal, logger_stopper, killRet>>]_vars

C6_Witness ==
    /\ logger[1] /\ signal[1] /\ logger_stopper[1] = "Triggered"
    /\ kpc[1] = "mid" /\ killRet[1] = "Ok" /\ pc[1] = "body"

\* C9: every receiver attached to the source's output port, the recorder
\* tap included, has received exactly the sequence the source produced.
C9_FanOutFidelity == \A r \in outLinks : rcv[r] = Identity

\* =========================================================================
\* Properties of the input-rule gathering loop.
\* =========================================================================
\* The firings that delivered a token of port p.
FiringsOf(p) == {i \in 1..Len(fired) : fired[i][p] # Empty}

\* C7: when input_rule returns Ok(true) the loop awaits no link any more,
\* the body is then invoked once with exactly the tokens ready at that
\* moment, no token is delivered to two firings and no received token is
\* lost.
C7_FiringAtomicity ==
    /\ [](ruleOk => links = {})
    /\ [](\A p \in Ports : \A i, j \in FiringsOf(p) :
              i # j => fired[i][p] # fired[j][p])
    /\ [](\A p \in Ports :
              taken[p] = Cardinality(FiringsOf(p))
                         + (IF tokens[p] # Empty THEN 1 ELSE 0))
    /\ [][ruleOk =>
             \/ /\ fired' = Append(fired, tokens)
                /\ ~ruleOk'
                /\ \A p \in Ports : tokens'[p] = Empty
             \/ UNCHANGED <<tokens, fired, ruleOk, links>>]_vars
    /\ [][fired' # fired => ruleOk]_vars

C7_Witness ==
    /\ ruleOk /\ links = {} /\ Len(fired) >= 1
    /\ \E p \in Ports : tokens[p] = Empty /\ chan[p] # <<>>

\* C8: under the default rule, on links that carry only data messages, the
\* k-th firing receives the k-th message of x and the k-th message of y.
C8_Synchrony ==
    (rule = "default" /\ \A p \in Ports : ctrlSent[p] = 0) =>
        \A k \in 1..Len(fired) : \A p \in Ports : fired[k][p] = Data(k)

C8_Witness ==
    /\ rule = "default" /\ \A p \in Ports : ctrlSent[p] = 0
    /\ Len(fired) = 2

\* =========================================================================
\* Properties of the loader.
\* =========================================================================
\* C10: a load that read a declaration whose rustc or core version differs
\* from the runtime's returns VersionMismatch, calls register never and
\* returns no instance.
C10_VersionGate ==
    (/\ call.kind \in NodeKinds
     /\ outcome.declRead
     /\ (lib.rustc # RUSTC_VERSION \/ lib.core # CORE_VERSION)) =>
        /\ outcome.result = "VersionMismatch"
        /\ outcome.registerCalls = 0
        /\ ~outcome.instance

C10_Witness ==
    /\ call.kind = "sink" /\ outcome.result = "VersionMismatch"
    /\ lib.rustc = RUSTC_VERSION /\ lib.core # CORE_VERSION

\* The result the fixed order of steps gives: the error of the first step
\* that fails for loader k on path u, Ok when none fails.
FirstFailure(k, u) ==
    IF ~u.parses THEN "ParsingError"
    ELSE IF u.scheme # "file" THEN "Unimplemented"
    ELSE IF ~make_file_path(u).ok THEN "IOError"
    ELSE IF ~lib.loadable THEN "LibError"
    ELSE IF k \notin lib.symbols THEN "LibError"
    ELSE IF lib.rustc # RUSTC_VERSION \/ lib.core # CORE_VERSION
    THEN "VersionMismatch"
    ELSE IF ~lib.regOk THEN "RegisterError"
    ELSE "Ok"

C13_LoggerIffSource ==
    /\ [](\A t \in Tasks :
            /\ mgr[t] = "ready" =>
                  /\ logger[t] <=> kind = "Source"
                  /\ logger_stopper[t] # "None" <=> kind = "Source"
            /\ kind # "Source" =>
                  /\ Tap(t) \notin outLinks
                  /\ ~logger[t] /\ logger_stopper[t] = "None"
                  /\ ~recording[t]
                  /\ recRet[t] \in {"none", ""}
            /\ (kind = "Source" /\ lastRec[t] # "none") =>
                  recRet[t] \in {"resource", "Err"})
    /\ [][\A t \in Tasks :
            (lastRec'[t] # lastRec[t] /\ kind # "Source") =>
                /\ recRet'[t] = ""
                /\ UNCHANGED <<rvars, recording>>]_vars

C13_Witness ==
    /\ kind = "Sink" /\ mgr[1] = "ready"
    /\ lastRec[1] = "stop_recording" /\ recRet[1] = ""
    /\ pc[1] = "body"

\* C14: the recorder key and the logger id are functions of (flow_id,
\* instance_id, node_id, port_id), and two taps with different tuples never
\* get the same key or the same logger id.
C14_UniqueNames ==
    \A a, b \in taps :
        /\ a.ids = b.ids => (a.key = b.key /\ a.id = b.id)
        /\ a.ids # b.ids => (a.key # b.key /\ a.id # b.id)

\* =========================================================================
\* Properties of the gathering loop: control messages, non-firing rules,
\* receive errors, receives per round.
\* =========================================================================

\* C15: after a Control message was received on a port, the port's token is
\* still Empty and the port is still in the await set of the round, so a
\* later Data message on it is received in the same round.
C15_ControlReawaits ==
    \A p \in Ports :
        (recvs[p] >= 1 /\ tokens[p] = Empty /\ ~ruleOk /\ ~closed[p]) =>
            p \in links

\* C16: when input_rule answers Ok(false) or Err for a stored Data message
\* the engine does not fire, changes no other token, and goes on awaiting
\* the other ports of the await set, all of which have an Empty token; a
\* port whose token is Ready is never in the await set.
C16_NonFiringKeepsTokens ==
    /\ [](\A p \in links : tokens[p] = Empty)
    /\ [][\A p \in Ports :
            (taken'[p] = taken[p] + 1 /\ ~ruleOk') =>
                /\ fired' = fired
                /\ tokens' = [tokens EXCEPT ![p] = Head(chan[p])]
                /\ links' = links \ {p}
                /\ \A q \in links' : tokens'[q] = Empty]_vars

C16_Witness ==
    /\ rule = "error"
    /\ tokens["x"] = Data(1) /\ tokens["y"] = Empty
    /\ links = {"y"} /\ ~ruleOk
    /\ chan["x"] # <<>> /\ taken["x"] = 1

\* C17: a receive error on the link of a port removes that port alone from
\* the await set; the tokens, the firings and the other awaited ports are
\* untouched, and the loop goes on while the await set is not empty.
C17_RecvErrorDropsPort ==
    [][(links # {} /\ links' # links /\ recvs' = recvs) =>
          \E p \in links :
              /\ closed[p] /\ chan[p] = <<>>
              /\ links' = links \ {p}
              /\ UNCHANGED <<tokens, fired, ruleOk, chan, taken>>]_vars

C17_Witness ==
    /\ tokens["y"] = Data(1) /\ tokens["x"] = Empty
    /\ closed["x"] /\ chan["x"] = <<>> /\ recvs["x"] = 0
    /\ links = {} /\ ~ruleOk

\* C19: in one round each port is received from at most once: a completed
\* receive takes the port out of the await set, a Ready token is never
\* replaced by another message, and a round has at most as many completed
\* receives as there are input links.
C19_OneReceivePerRound ==
    /\ [](/\ \A p \in Ports : recvs[p] <= 1
          /\ recvs["x"] + recvs["y"] <= Cardinality(Ports))
    /\ [][\A p \in Ports :
            /\ recvs'[p] = recvs[p] + 1 => p \notin links'
            /\ tokens[p] # Empty => tokens'[p] \in {tokens[p], Empty}]_vars

C19_Witness ==
    /\ recvs["x"] = 1 /\ recvs["y"] = 1
    /\ tokens["x"] = Empty /\ tokens["y"] = Data(1)
    /\ chan["x"] = <<Data(1)>>
    /\ links = {} /\ ~ruleOk

\* C18: a stop signal triggered at any moment is observed: whenever the
\* signal of the task is triggered, the task eventually completes and its
\* handle yields Ok; the body is only ever left at a suspension point or at
\* its return.
C18_StopObserved == signal[1] ~> (pc[1] = "done" /\ result[1] = "Ok")

C18_Witness ==
    /\ signal[1] /\ pc[1] = "done" /\ result[1] = "Ok"
    /\ exitBy[1] = "stop" /\ postStop >= 1 /\ errs >= 1

\* The errors try_new, and so start(), can return.
StartErrors == {"NodeNotFound", "LoggerError", "LinkError"}

\* C20: when start() has returned an error, the task it spawned was never
\* started or is stopped: no task of the runner is in its loop or in a body
\* without a manager that can trigger its stop signal.
C20_NoOrphanTask ==
    \A t \in Tasks :
        mgr[t] \in StartErrors => pc[t] \in {"unspawned", "done"}

====
